---- MODULE Spec2Model ----
(***************************************************************************)
(* Model of the two embedding entry points of code-search-mcp:             *)
(*   Scripts/bert_embedding_server.py  (HTTP server, get_model singleton)  *)
(*   Scripts/generate_embeddings.py    (one-shot stdin/stdout tool)        *)
(*                                                                         *)
(* Three specifications share the variables:                               *)
(*   Spec        the HTTP server as run_server starts it (HTTPServer,      *)
(*               one request handled at a time by the main thread)         *)
(*   SpecThreads get_model() called concurrently by several threads        *)
(*   SpecStdio   one invocation of generate_embeddings.py                  *)
(***************************************************************************)
EXTENDS Integers, Sequences, FiniteSets, TLC

\* ---------------------------------------------------------------- bounds
NThreads == 2
MaxBacklog == 1
MaxTexts == 1
MaxLoads == 2

\* ------------------------------------------------------- program constants
dimension == 384

VARIABLES
    \* bert_embedding_server.py
    _model,         \* global _model: 0 is None, k > 0 the k-th constructed instance
    _model_lock,    \* global _model_lock: 0 is free, otherwise the holding thread + 1
    pc,             \* position of every thread (thread 0 is the server's main thread)
    got,            \* per thread: what its last get_model() call returned (0 = None)
    exc,            \* per thread: the exception in flight / last raised ("none")
    constructed,    \* number of SentenceTransformer(...) calls that completed
    failures,       \* number of get_model() calls that raised (saturating)
    server,         \* "LISTENING", "HANDLING", "STOPPED"
    pending,        \* number of connections waiting in the listen backlog
    cur,            \* the request do_POST has read and is working on
    texts,          \* do_POST's local `texts`
    entry,          \* <<_model, _model_lock>> when the current request was accepted
    answered,       \* the last request answered and the response written for it
    \* generate_embeddings.py
    spc,            \* position of the one-shot process
    stdin,          \* what is on standard input
    model,          \* global model of generate_embeddings.py (0 is None)
    response,       \* main's local `response` / `error_response`
    stdout_buf,     \* documents printed to sys.stdout, not yet flushed
    stdout,         \* documents that reached standard output
    stderr,         \* lines written to standard error
    sexc,           \* exception raised in the process ("none")
    exitcode        \* -1 while running

srvVars == <<server, pending, cur, texts, entry, answered>>
gmVars == <<_model, _model_lock, pc, got, exc, constructed, failures>>
ioVars == <<spc, stdin, model, response, stdout_buf, stdout, stderr, sexc, exitcode>>
vars == <<srvVars, gmVars, ioVars>>

MainThread == 0
Workers == 1..NThreads
Threads == {MainThread} \cup Workers

\* ------------------------------------------------------------ JSON values
\* A decoded JSON value: its Python type and, for a list, its elements (as
\* strings), for a str, the words it is made of.
Val(t, items) == [t |-> t, items |-> items]
Null == Val("null", <<>>)
Words == {"text", "texts"}
SeqUpTo(n) == UNION {[1..k -> Words] : k \in 0..n}
Values ==
    {Null, Val("num", <<>>), Val("dict", <<>>)}
        \cup {Val("str", s) : s \in SeqUpTo(1)}
        \cup {Val("list", s) : s \in SeqUpTo(MaxTexts)}

\* A decoded JSON document: a value, and for a dict its keys and what is
\* stored under 'texts'.
Doc(v, keys, t) == [t |-> v.t, items |-> v.items, keys |-> keys, texts |-> t]
Keys == {"text", "texts"}
Docs ==
    {Doc(Val("dict", <<>>), ks, Null) : ks \in SUBSET (Keys \ {"texts"})}
        \cup {Doc(Val("dict", <<>>), ks \cup {"texts"}, t) :
                ks \in SUBSET (Keys \ {"texts"}), t \in Values}
        \cup {Doc(v, {}, Null) : v \in Values \ {Val("dict", <<>>)}}

\* The bytes of a body / of stdin: whether they decode as text, whether the
\* text is a JSON document, and the document.
Raw(utf8, syntax, doc) == [utf8 |-> utf8, syntax |-> syntax, doc |-> doc]
NoDoc == Doc(Null, {}, Null)
NoBody == Raw(TRUE, FALSE, NoDoc)
Bodies ==
    {Raw(FALSE, FALSE, NoDoc), NoBody} \cup {Raw(TRUE, TRUE, d) : d \in Docs}

Ok(v) == [ok |-> TRUE, err |-> "none", val |-> v]
Err(e) == [ok |-> FALSE, err |-> e, val |-> NoDoc]

\* json.loads(bytes): decodes the bytes first (UnicodeDecodeError is a
\* ValueError, not a JSONDecodeError), then parses.
json_loads(raw) ==
    IF ~raw.utf8 THEN Err("UnicodeDecodeError")
    ELSE IF ~raw.syntax THEN Err("JSONDecodeError")
    ELSE Ok(raw.doc)

\* Python's `key in data`.
Contains(data, key) ==
    CASE data.t = "dict" -> IF key \in data.keys THEN "True" ELSE "False"
      [] data.t \in {"list", "str"} ->
            IF \E i \in 1..Len(data.items) : data.items[i] = key
            THEN "True" ELSE "False"
      [] OTHER -> "TypeError"

\* Python's `data[key]` for a str key, after `key in data` was true.
GetItem(data, key) ==
    IF data.t = "dict"
    THEN [ok |-> TRUE, err |-> "none",
          val |-> IF key = "texts" THEN data.texts ELSE Val("str", <<>>)]
    ELSE [ok |-> FALSE, err |-> "TypeError", val |-> Null]

\* int(self.headers['Content-Length'])
ContentLengths == {"exact", "short", "missing", "nonnumeric"}
int_content_length(h) ==
    CASE h = "missing" -> "TypeError"
      [] h = "nonnumeric" -> "ValueError"
      [] OTHER -> "none"

\* self.rfile.read(content_length): a length shorter than the body cuts it.
rfile_read(h, raw) ==
    IF h = "short" THEN Raw(raw.utf8, FALSE, NoDoc) ELSE raw

\* ------------------------------------------------------------- get_model
Bump(n) == IF n < MaxLoads THEN n + 1 ELSE n
Holder(t) == t + 1
Free == 0

\* a thread enters get_model()
get_model_call(t) ==
    /\ pc[t] = "call"
    /\ pc' = [pc EXCEPT ![t] = "if_outer"]
    /\ exc' = [exc EXCEPT ![t] = "none"]
    /\ UNCHANGED <<_model, _model_lock, got, constructed, failures,
                   srvVars, ioVars>>

\* line 33: if _model is None (outside the lock)
get_model_if_outer(t) ==
    /\ pc[t] = "if_outer"
    /\ pc' = [pc EXCEPT ![t] = IF _model = 0 THEN "acquire" ELSE "return"]
    /\ UNCHANGED <<_model, _model_lock, got, exc, constructed, failures,
                   srvVars, ioVars>>

\* line 34: with _model_lock (blocks until the lock is free)
get_model_acquire(t) ==
    /\ pc[t] = "acquire"
    /\ _model_lock = Free
    /\ _model_lock' = Holder(t)
    /\ pc' = [pc EXCEPT ![t] = "if_inner"]
    /\ UNCHANGED <<_model, got, exc, constructed, failures,
                   srvVars, ioVars>>

\* mutant: the check inside the lock is missing
get_model_if_inner_unchecked(t) ==
    /\ pc[t] = "if_inner"
    /\ pc' = [pc EXCEPT ![t] = "import"]
    /\ UNCHANGED <<_model, _model_lock, got, exc, constructed, failures,
                   srvVars, ioVars>>

\* line 35: if _model is None (inside the lock)
get_model_if_inner(t) ==
    /\ pc[t] = "if_inner"
    /\ pc' = [pc EXCEPT ![t] = IF _model = 0 THEN "import" ELSE "release"]
    /\ UNCHANGED <<_model, _model_lock, got, exc, constructed, failures,
                   srvVars, ioVars>>

\* lines 37, 41-46: the import; an ImportError is re-raised as RuntimeError
get_model_import(t) ==
    /\ pc[t] = "import"
    /\ \/ /\ pc' = [pc EXCEPT ![t] = "construct"]
          /\ UNCHANGED exc
       \/ /\ pc' = [pc EXCEPT ![t] = "unwind"]
          /\ exc' = [exc EXCEPT ![t] = "RuntimeError"]
    /\ UNCHANGED <<_model, _model_lock, got, constructed, failures,
                   srvVars, ioVars>>

\* lines 39, 47-49: _model = SentenceTransformer(...); any exception is re-raised
get_model_construct(t) ==
    /\ pc[t] = "construct"
    /\ \/ /\ _model' = constructed + 1
          /\ constructed' = Bump(constructed)
          /\ pc' = [pc EXCEPT ![t] = "release"]
          /\ UNCHANGED exc
       \/ /\ pc' = [pc EXCEPT ![t] = "unwind"]
          /\ exc' = [exc EXCEPT ![t] = "OSError"]
          /\ UNCHANGED <<_model, constructed>>
    /\ UNCHANGED <<_model_lock, got, failures,
                   srvVars, ioVars>>

\* end of the with block on the normal path: the lock is released
get_model_release(t) ==
    /\ pc[t] = "release"
    /\ _model_lock' = Free
    /\ pc' = [pc EXCEPT ![t] = "return"]
    /\ UNCHANGED <<_model, got, exc, constructed, failures,
                   srvVars, ioVars>>

\* mutant: the lock is acquired without a with block and stays held on a raise
get_model_unwind_keeps_lock(t) ==
    /\ pc[t] = "unwind"
    /\ pc' = [pc EXCEPT ![t] = "raised"]
    /\ failures' = Bump(failures)
    /\ UNCHANGED <<_model, _model_lock, got, exc, constructed, srvVars, ioVars>>

\* the exception leaves the with block: the lock is released, the call raises
get_model_unwind(t) ==
    /\ pc[t] = "unwind"
    /\ _model_lock' = Free
    /\ pc' = [pc EXCEPT ![t] = "raised"]
    /\ failures' = Bump(failures)
    /\ UNCHANGED <<_model, got, exc, constructed,
                   srvVars, ioVars>>

\* line 50: return _model
get_model_return(t) ==
    /\ pc[t] = "return"
    /\ got' = [got EXCEPT ![t] = _model]
    /\ pc' = [pc EXCEPT ![t] = "returned"]
    /\ UNCHANGED <<_model, _model_lock, exc, constructed, failures,
                   srvVars, ioVars>>

get_model(t) ==
    \/ get_model_call(t)
    \/ get_model_if_outer(t)
    \/ get_model_acquire(t)
    \/ get_model_if_inner(t)
    \/ get_model_import(t)
    \/ get_model_construct(t)
    \/ get_model_release(t)
    \/ get_model_unwind(t)
    \/ get_model_return(t)

\* ------------------------------------------------------------ HTTP server
Methods == {"GET", "POST", "PUT"}
Paths == {"/health", "/embed", "/other"}
Request(method, path, clen, raw) ==
    [method |-> method, path |-> path, clen |-> clen, raw |-> raw]
NoReq == Request("none", "none", "exact", NoBody)

Body(kind, msg, dim, count) ==
    [kind |-> kind, msg |-> msg, dimension |-> dim, count |-> count]
NoAnswer ==
    [req |-> NoReq, status |-> 0, exc |-> "none", body |-> Body("none", "", 0, 0)]

\* The handler has written a response and returns to serve_forever's loop.
Respond(req, status, e, body) ==
    /\ answered' = [req |-> req, status |-> status, exc |-> e, body |-> body]
    /\ server' = "LISTENING"
    /\ cur' = NoReq
    /\ texts' = <<>>
    /\ pc' = [pc EXCEPT ![MainThread] = "idle"]
    /\ got' = [got EXCEPT ![MainThread] = 0]
    /\ exc' = [exc EXCEPT ![MainThread] = "none"]
    /\ UNCHANGED <<pending, entry>>

send_error(req, status, e, msg) ==
    Respond(req, status, e, Body("error", msg, 0, 0))

\* a client connects; the connection waits in the listen backlog
Connect ==
    /\ server # "STOPPED"
    /\ pending < MaxBacklog
    /\ pending' = pending + 1
    /\ UNCHANGED <<server, cur, texts, entry, answered, gmVars, ioVars>>

\* httpd.serve_forever(): HTTPServer takes the next connection only when no
\* request is being handled (requests are handled in the serving thread)
serve_forever ==
    /\ server = "LISTENING"
    /\ pending > 0
    /\ pending' = pending - 1
    /\ server' = "HANDLING"
    /\ entry' = <<_model, _model_lock>>
    /\ pc' = [pc EXCEPT ![MainThread] = "dispatch"]
    /\ UNCHANGED <<cur, texts, answered, _model, _model_lock, got, exc, constructed,
                   failures, ioVars>>

\* BaseHTTPRequestHandler: a method with no do_<METHOD> is answered 501
unsupported_method(method, path) ==
    /\ pc[MainThread] = "dispatch"
    /\ method \notin {"GET", "POST"}
    /\ send_error(Request(method, path, "exact", NoBody), 501, "none",
                  "Unsupported method")
    /\ UNCHANGED <<_model, _model_lock, constructed, failures, ioVars>>

\* mutant: every GET is answered as the health check
do_GET_any_path(path) ==
    /\ pc[MainThread] = "dispatch"
    /\ Respond(Request("GET", path, "exact", NoBody), 200, "none",
               Body("health", "all-MiniLM-L6-v2", dimension, 0))
    /\ UNCHANGED <<_model, _model_lock, constructed, failures, ioVars>>

\* mutant: the health check loads the model
do_GET_loads_model(path) ==
    /\ pc[MainThread] = "dispatch"
    /\ LET req == Request("GET", path, "exact", NoBody)
       IN  IF path = "/health"
           THEN Respond(req, 200, "none",
                        Body("health", "all-MiniLM-L6-v2", dimension, 0))
           ELSE send_error(req, 404, "none", "Not Found")
    /\ _model' = IF _model = 0 THEN constructed + 1 ELSE _model
    /\ constructed' = IF _model = 0 THEN Bump(constructed) ELSE constructed
    /\ UNCHANGED <<_model_lock, failures, ioVars>>

do_GET(path) ==
    /\ pc[MainThread] = "dispatch"
    /\ LET req == Request("GET", path, "exact", NoBody)
       IN  IF path = "/health"
           THEN Respond(req, 200, "none",
                        Body("health", "all-MiniLM-L6-v2", dimension, 0))
           ELSE send_error(req, 404, "none", "Not Found")
    /\ UNCHANGED <<_model, _model_lock, constructed, failures, ioVars>>

\* mutant: every exception is reported as a client error
except_status_always_400(e) == 400

\* the except clauses of do_POST, lines 120-125
except_status(e) == IF e = "JSONDecodeError" THEN 400 ELSE 500
do_POST_except(req, e) ==
    send_error(req, except_status(e), e,
               IF e = "JSONDecodeError" THEN "Invalid JSON" ELSE "Internal server error")

\* mutant: the empty-array check is missing
validate_accepts_empty(data) ==
    CASE Contains(data, "texts") = "TypeError" -> "TypeError"
      [] Contains(data, "texts") = "False" -> "Missing 'texts' field in request"
      [] ~GetItem(data, "texts").ok -> "TypeError"
      [] GetItem(data, "texts").val.t # "list" -> "'texts' must be an array"
      [] OTHER -> ""

\* lines 87-98: the checks on the decoded document, first failure wins;
\* "" when the request passes
validate(data) ==
    CASE Contains(data, "texts") = "TypeError" -> "TypeError"
      [] Contains(data, "texts") = "False" -> "Missing 'texts' field in request"
      [] ~GetItem(data, "texts").ok -> "TypeError"
      [] GetItem(data, "texts").val.t # "list" -> "'texts' must be an array"
      [] Len(GetItem(data, "texts").val.items) = 0 -> "'texts' array cannot be empty"
      [] OTHER -> ""

\* do_POST up to the call of get_model(), lines 77-102
do_POST(path, clen, raw) ==
    /\ pc[MainThread] = "dispatch"
    /\ LET req == Request("POST", path, clen, raw)
           parsed == json_loads(rfile_read(clen, raw))
           v == validate(parsed.val)
       IN  IF path # "/embed"
           THEN send_error(Request("POST", path, "exact", NoBody), 404, "none",
                           "Not Found - use /embed")
           ELSE IF int_content_length(clen) # "none"
           THEN do_POST_except(req, int_content_length(clen))
           ELSE IF ~parsed.ok
           THEN do_POST_except(req, parsed.err)
           ELSE IF v = "TypeError"
           THEN do_POST_except(req, "TypeError")
           ELSE IF v # ""
           THEN send_error(req, 400, "none", v)
           ELSE /\ texts' = GetItem(parsed.val, "texts").val.items
                /\ cur' = req
                /\ pc' = [pc EXCEPT ![MainThread] = "call"]
                /\ UNCHANGED <<got, exc, server, pending, answered, entry>>
    /\ UNCHANGED <<_model, _model_lock, constructed, failures, ioVars>>

\* line 102 raised: except Exception, line 123
do_POST_load_failed ==
    /\ pc[MainThread] = "raised"
    /\ do_POST_except(cur, exc[MainThread])
    /\ UNCHANGED <<_model, _model_lock, constructed, failures, ioVars>>

\* lines 103-118: model.encode and the 200 response; the inference can fail
do_POST_encode ==
    /\ pc[MainThread] = "returned"
    /\ \/ Respond(cur, 200, "none", Body("embeddings", "", dimension, Len(texts)))
       \/ do_POST_except(cur, "InferenceError")
    /\ UNCHANGED <<_model, _model_lock, constructed, failures, ioVars>>

\* Ctrl+C, lines 142-144: the KeyboardInterrupt passes every `except Exception`
\* and every with block (releasing the lock) and stops the server
KeyboardInterrupt ==
    /\ server # "STOPPED"
    /\ server' = "STOPPED"
    /\ pc' = [pc EXCEPT ![MainThread] = "stopped"]
    /\ _model_lock' = IF _model_lock = Holder(MainThread) THEN Free ELSE _model_lock
    /\ pending' = 0
    /\ UNCHANGED <<cur, texts, entry, answered, _model, got, exc, constructed,
                   failures, ioVars>>

InitServer ==
    /\ _model = 0
    /\ _model_lock = Free
    /\ pc = [t \in Threads |-> "idle"]
    /\ got = [t \in Threads |-> 0]
    /\ exc = [t \in Threads |-> "none"]
    /\ constructed = 0
    /\ failures = 0
    /\ server = "LISTENING"
    /\ pending = 0
    /\ cur = NoReq
    /\ texts = <<>>
    /\ entry = <<0, Free>>
    /\ answered = NoAnswer

\* the JSON documents generate_embeddings.py prints
OutDoc(kind, msg) == [kind |-> kind, msg |-> msg]
NoResponse == OutDoc("none", "")
InvalidRequest == OutDoc("error", "Invalid request: must provide \"text\" or \"texts\"")

InitStdio ==
    /\ spc = "start"
    /\ stdin = NoBody
    /\ model = 0
    /\ response = NoResponse
    /\ stdout_buf = <<>>
    /\ stdout = <<>>
    /\ stderr = <<>>
    /\ sexc = "none"
    /\ exitcode = -1

Init == InitServer /\ InitStdio

Next ==
    \/ Connect
    \/ serve_forever
    \/ \E m \in Methods, p \in Paths : unsupported_method(m, p)
    \/ \E p \in Paths : do_GET(p)
    \/ \E p \in Paths, clen \in ContentLengths, raw \in Bodies : do_POST(p, clen, raw)
    \/ get_model(MainThread)
    \/ do_POST_load_failed
    \/ do_POST_encode
    \/ KeyboardInterrupt

Spec == Init /\ [][Next]_vars

\* ------------------------------------------- get_model under several threads
\* a thread (a request-handling thread of a threaded server) calls get_model()
thread_start(t) ==
    /\ pc[t] \in {"idle", "returned", "raised"}
    /\ pc' = [pc EXCEPT ![t] = "call"]
    /\ UNCHANGED <<_model, _model_lock, got, exc, constructed, failures,
                   srvVars, ioVars>>

NextThreads ==
    \E t \in Workers : thread_start(t) \/ get_model(t)

SpecThreads == Init /\ [][NextThreads]_vars

\* ------------------------------------------------- generate_embeddings.py

\* the process ends: the interpreter flushes sys.stdout, which can fail when
\* something is still buffered (exit status 120)
Finalize(code, buf, out) ==
    /\ spc' = "exited"
    /\ \/ /\ stdout' = out \o buf
          /\ stdout_buf' = <<>>
          /\ exitcode' = code
       \/ /\ buf # <<>>
          /\ stdout' = out
          /\ stdout_buf' = buf
          /\ exitcode' = 120

\* line 11, at module level and outside main's try: an ImportError ends the
\* process with a traceback on stderr and nothing on stdout
import_sentence_transformers ==
    /\ spc = "start"
    /\ \/ /\ spc' = "main"
          /\ UNCHANGED <<stdout_buf, stdout, stderr, sexc, exitcode>>
       \/ /\ sexc' = "ImportError"
          /\ stderr' = Append(stderr, "Traceback")
          /\ Finalize(1, stdout_buf, stdout)
    /\ UNCHANGED <<stdin, model, response, srvVars, gmVars>>

\* lines 38-49: which branch main takes for a decoded request
\* ("single", "batch", "invalid"), or the exception raised
branch(request) ==
    CASE Contains(request, "text") = "TypeError" -> "TypeError"
      [] Contains(request, "text") = "True" ->
            IF GetItem(request, "text").ok THEN "single" ELSE "TypeError"
      [] Contains(request, "texts") = "True" ->
            IF GetItem(request, "texts").ok THEN "batch" ELSE "TypeError"
      [] OTHER -> "invalid"

\* lines 38-49 up to the calls of generate_embedding / generate_batch_embeddings
main_read(raw) ==
    /\ spc = "main"
    /\ stdin' = raw
    /\ LET parsed == json_loads(raw)
           b == IF parsed.ok THEN branch(parsed.val) ELSE parsed.err
       IN  CASE b \in {"single", "batch"} ->
                    /\ spc' = b
                    /\ UNCHANGED <<response, sexc>>
             [] b = "invalid" ->
                    /\ spc' = "print"
                    /\ response' = InvalidRequest
                    /\ UNCHANGED sexc
             [] OTHER ->
                    /\ spc' = "except"
                    /\ sexc' = b
                    /\ UNCHANGED response
    /\ UNCHANGED <<model, stdout_buf, stdout, stderr, exitcode, srvVars, gmVars>>

\* lines 17-21 and 26 / 32: load_model() and model.encode; either can raise
generate ==
    /\ spc \in {"single", "batch"}
    /\ \/ /\ model' = 1
          /\ response' = OutDoc(IF spc = "single" THEN "embedding" ELSE "embeddings", "")
          /\ spc' = "print"
          /\ UNCHANGED sexc
       \/ /\ model' = 0
          /\ sexc' = "OSError"
          /\ spc' = "except"
          /\ UNCHANGED response
       \/ /\ model' = 1
          /\ sexc' = "InferenceError"
          /\ spc' = "except"
          /\ UNCHANGED response
    /\ UNCHANGED <<stdin, stdout_buf, stdout, stderr, exitcode, srvVars, gmVars>>

\* line 51: print(json.dumps(response)); a response too large for the buffer is
\* written through and the write can fail
print_response ==
    /\ spc = "print"
    /\ \/ /\ stdout_buf' = Append(stdout_buf, response)
          /\ spc' = "flush"
          /\ UNCHANGED sexc
       \/ /\ response.kind # "error"
          /\ sexc' = "BrokenPipeError"
          /\ spc' = "except"
          /\ UNCHANGED stdout_buf
    /\ UNCHANGED <<stdin, model, response, stdout, stderr, exitcode, srvVars, gmVars>>

\* line 52: sys.stdout.flush(); on failure the buffer keeps the document
stdout_flush ==
    /\ spc = "flush"
    /\ \/ /\ stdout' = stdout \o stdout_buf
          /\ stdout_buf' = <<>>
          /\ spc' = "return"
          /\ UNCHANGED sexc
       \/ /\ sexc' = "BrokenPipeError"
          /\ spc' = "except"
          /\ UNCHANGED <<stdout, stdout_buf>>
    /\ UNCHANGED <<stdin, model, response, stderr, exitcode, srvVars, gmVars>>

\* main returns: exit status 0
main_return ==
    /\ spc = "return"
    /\ Finalize(0, stdout_buf, stdout)
    /\ UNCHANGED <<stdin, model, response, stderr, sexc, srvVars, gmVars>>

\* lines 54-58: except Exception: print the error object, write the error
\* line to stderr, sys.exit(1)
main_except ==
    /\ spc = "except"
    /\ response' = OutDoc("error", sexc)
    /\ stderr' = Append(stderr, "Error")
    /\ Finalize(1, Append(stdout_buf, OutDoc("error", sexc)), stdout)
    /\ UNCHANGED <<stdin, model, sexc, srvVars, gmVars>>

NextStdio ==
    \/ import_sentence_transformers
    \/ \E raw \in Bodies : main_read(raw)
    \/ generate
    \/ print_response
    \/ stdout_flush
    \/ main_return
    \/ main_except

SpecStdio == Init /\ [][NextStdio]_vars

\* ================================================================ claims
IsHealth(r) == r.method = "GET" /\ r.path = "/health"
IsEmbed(r) == r.method = "POST" /\ r.path = "/embed"
Answered == answered.status # 0
\* the handler's response is written in this step
Responds == pc[MainThread] # "idle" /\ pc'[MainThread] = "idle"
HandlerStep ==
    \/ \E m \in Methods, p \in Paths : unsupported_method(m, p)
    \/ \E p \in Paths : do_GET(p)
    \/ \E p \in Paths, clen \in ContentLengths, raw \in Bodies : do_POST(p, clen, raw)
    \/ get_model(MainThread)
    \/ do_POST_load_failed
    \/ do_POST_encode

\* C1: whatever the interleaving of the threads calling get_model(), the
\* SentenceTransformer constructor completes at most once, and a handle that
\* is set is never replaced or reset.
C1_ConstructedAtMostOnce ==
    /\ [](constructed <= 1)
    /\ [][_model # 0 => _model' = _model]_vars

\* C1 witness: a thread saw the handle unset outside the lock, then got the
\* lock after another thread had constructed the model.
C1_Witness ==
    \E t \in Workers : pc[t] = "if_inner" /\ _model # 0 /\ constructed = 1

\* C2: for a POST /embed whose body was read and parses as a JSON object, a
\* missing 'texts', a non-array 'texts' and an empty 'texts' array are each
\* answered 400 (in that order), and 200 is answered only when 'texts' is a
\* non-empty array.
C2_TextsValidation ==
    LET r == answered.req
        d == r.raw.doc
        t == d.texts
    IN  (Answered /\ IsEmbed(r))
        => /\ (r.clen = "exact" /\ r.raw.utf8 /\ r.raw.syntax /\ d.t = "dict")
                => /\ "texts" \notin d.keys
                        => /\ answered.status = 400
                           /\ answered.body.msg = "Missing 'texts' field in request"
                   /\ ("texts" \in d.keys /\ t.t # "list")
                        => /\ answered.status = 400
                           /\ answered.body.msg = "'texts' must be an array"
                   /\ ("texts" \in d.keys /\ t.t = "list" /\ t.items = <<>>)
                        => /\ answered.status = 400
                           /\ answered.body.msg = "'texts' array cannot be empty"
           /\ answered.status = 200
                => /\ r.clen = "exact" /\ r.raw.utf8 /\ r.raw.syntax
                   /\ "texts" \in d.keys /\ t.t = "list" /\ Len(t.items) > 0

\* C2 witness: a JSON object with an empty 'texts' array was answered 400.
C2_Witness ==
    /\ Answered /\ IsEmbed(answered.req) /\ answered.status = 400
    /\ answered.req.raw.syntax /\ answered.req.raw.doc.t = "dict"
    /\ "texts" \in answered.req.raw.doc.keys
    /\ answered.req.raw.doc.texts = Val("list", <<>>)

\* C3: an exception during POST /embed that is not a JSON parse error (a
\* failed model load and a failed inference included) is answered 500; the
\* server is then listening again, takes the next connection and has a step
\* to take for every request it is handling.
C3_ExceptionIs500AndServerLives ==
    /\ [](answered.exc \notin {"none", "JSONDecodeError"} => answered.status = 500)
    /\ [][(Responds /\ answered'.exc \notin {"none", "JSONDecodeError"})
            => (answered'.status = 500 /\ server' = "LISTENING")]_vars
    /\ []((server = "LISTENING" /\ pending > 0) => ENABLED serve_forever)
    /\ [](server = "HANDLING" => ENABLED HandlerStep)

\* C3 witness: after a model-load failure was answered 500, the server has
\* accepted the next request.
C3_Witness ==
    /\ answered.exc = "RuntimeError" /\ answered.status = 500
    /\ server = "HANDLING" /\ pc[MainThread] = "dispatch"

\* C4 (as claimed): when the stdio tool has exited, exactly one JSON document
\* has been written to standard output.
C4_Claim == spc = "exited" => Len(stdout) = 1

\* C5 (as claimed): the stdio tool exits 0 exactly when no exception occurred;
\* when one occurred it exits non-zero having written {error: <message>} to
\* stdout and an error line to stderr.
C5_Claim ==
    spc = "exited"
        => /\ (exitcode = 0) <=> (sexc = "none")
           /\ sexc # "none"
                => /\ exitcode # 0
                   /\ \E i \in 1..Len(stdout \o stdout_buf) :
                        (stdout \o stdout_buf)[i] = OutDoc("error", sexc)
                   /\ stderr # <<>>

\* C6 (as claimed): every request that is neither GET /health nor POST /embed
\* is answered 404.
C6_Claim ==
    (Answered /\ ~IsHealth(answered.req) /\ ~IsEmbed(answered.req))
        => answered.status = 404

\* C6 (amended): a GET or POST request that is neither GET /health nor
\* POST /embed is answered 404; a request with any other method is answered 501.
C6_NotFoundOrUnsupported ==
    (Answered /\ ~IsHealth(answered.req) /\ ~IsEmbed(answered.req))
        => answered.status =
                IF answered.req.method \in {"GET", "POST"} THEN 404 ELSE 501

\* C6 witness: GET /embed was answered 404.
C6_Witness ==
    /\ answered.req.method = "GET" /\ answered.req.path = "/embed"
    /\ answered.status = 404

\* C7 (as claimed): a POST /embed whose body (read with a valid
\* Content-Length) is not a well-formed JSON document is answered 400.
C7_Claim ==
    LET r == answered.req
    IN  (Answered /\ IsEmbed(r) /\ r.clen \in {"exact", "short"}
            /\ ~json_loads(rfile_read(r.clen, r.raw)).ok)
        => answered.status = 400

\* C8 (as claimed): while the handler is inside the model load or the
\* inference, a waiting connection can be accepted.
C8_Claim ==
    (pc[MainThread] \in {"construct", "returned"} /\ pending > 0)
        => ENABLED serve_forever

\* C9: a request answered by GET /health, by a 404 or by a 400 is answered
\* without entering get_model(): the model handle and the lock are what they
\* were when the request was accepted; GET /health always answers 200 with
\* the same body.
C9_NoModelCall ==
    /\ [][(Responds /\ (answered'.status \in {400, 404} \/ IsHealth(answered'.req)))
            => /\ pc[MainThread] = "dispatch"
               /\ <<_model', _model_lock'>> = entry
               /\ UNCHANGED <<_model, _model_lock, constructed, failures>>]_vars
    /\ []((Answered /\ IsHealth(answered.req))
            => /\ answered.status = 200
               /\ answered.body = Body("health", "all-MiniLM-L6-v2", 384, 0))

\* C9 witness: GET /health was answered after a failed load, the model unset.
C9_Witness ==
    /\ Answered /\ IsHealth(answered.req) /\ answered.status = 200
    /\ failures > 0 /\ _model = 0 /\ pc[MainThread] = "idle"

\* C10: a get_model() call whose construction fails raises with the handle
\* unset and the lock released; the lock is only ever held by a thread inside
\* the with block, which has a step to take; a failure is not remembered: a
\* caller that finds the handle unset under the lock tries the construction.
InWith(t) == pc[t] \in {"if_inner", "import", "construct", "release", "unwind"}
C10_FailureReleasesLock ==
    /\ [][\A t \in Workers : (pc[t] = "unwind" /\ pc'[t] = "raised")
            => (_model' = 0 /\ _model_lock' = Free)]_vars
    /\ [](\A t \in Workers : InWith(t) <=> _model_lock = Holder(t))
    /\ [](\A t \in Workers : _model_lock = Holder(t) => ENABLED get_model(t))
    /\ [](\A t \in Workers : (pc[t] = "import" /\ failures > 0)
            => ENABLED (get_model_import(t) /\ pc'[t] = "construct"))

\* C10 witness: after a failed call, a later call constructed the model.
C10_Witness ==
    /\ failures > 0 /\ constructed = 1
    /\ \E t \in Workers : pc[t] = "returned" /\ got[t] # 0

====
